---- MODULE Spec2Model ----
(***************************************************************************)
(* A model of extract_and_migrate.py: the extractor get_data_from_table,   *)
(* the four transform functions, the batched loader insert_data_to_table   *)
(* and the orchestrator main.  Every HTTP request is a blocking call: the  *)
(* request is issued in one step and its response (or failure) arrives in  *)
(* the next.  Values are written as their JSON literals ("1500", "[]",     *)
(* "null", ...) so that values of different Python types can be compared. *)
(***************************************************************************)
EXTENDS Integers, Sequences, FiniteSets, TLC

VARIABLES
    pc,                \* position of the program
    caller,            \* "main" when main drives the functions, else "none"
    idx,               \* position of main's for loop in tables (1-based)
    table_name,        \* the table_name argument of the running function
    use_upsert,        \* the use_upsert argument of insert_data_to_table
    transform_func,    \* the transform function about to be applied
    data,              \* the value get_data_from_table returned / transform input
    transformed_data,  \* the list handed to insert_data_to_table
    i,                 \* insert_data_to_table's loop variable
    ret,               \* insert_data_to_table's return value
    log,               \* every HTTP request issued, in order, with its outcome
    accepted,          \* per table, the rows the destination has accepted
    result             \* per descriptor, the outcome main printed

vars == <<pc, caller, idx, table_name, use_upsert, transform_func, data,
          transformed_data, i, ret, log, accepted, result>>

(* ------------------------------ bounds -------------------------------- *)

\* longest list of rows a stand-alone call of the loader or extractor gets
MaxRows == 120
\* main: a source table holds no row, or one full batch and this many more
MaxMainExtra == 1
\* transforms: longest input list
MaxLen == 2

(* ----------------------------- constants ------------------------------ *)

batch_size == 50

Min(a, b) == IF a < b THEN a ELSE b

\* (the descriptors listed with the first two swapped)
tables_reordered ==
    << [table_name |-> "cat_app_users", display_name |-> "cat_app_users",
        transform_func |-> "transform_cat_app_users", use_upsert |-> FALSE],
       [table_name |-> "cat_name_options", display_name |-> "cat_name_options",
        transform_func |-> "transform_cat_name_options", use_upsert |-> TRUE],
       [table_name |-> "cat_name_ratings", display_name |-> "cat_name_ratings",
        transform_func |-> "transform_cat_name_ratings", use_upsert |-> FALSE],
       [table_name |-> "tournament_selections", display_name |-> "tournament_selections",
        transform_func |-> "transform_tournament_selections", use_upsert |-> FALSE] >>

\* main's list of (table_name, display_name, transform_func, use_upsert)
tables ==
    << [table_name |-> "cat_name_options", display_name |-> "cat_name_options",
        transform_func |-> "transform_cat_name_options", use_upsert |-> TRUE],
       [table_name |-> "cat_app_users", display_name |-> "cat_app_users",
        transform_func |-> "transform_cat_app_users", use_upsert |-> FALSE],
       [table_name |-> "cat_name_ratings", display_name |-> "cat_name_ratings",
        transform_func |-> "transform_cat_name_ratings", use_upsert |-> FALSE],
       [table_name |-> "tournament_selections", display_name |-> "tournament_selections",
        transform_func |-> "transform_tournament_selections", use_upsert |-> FALSE] >>

TransformNames == {tables[d].transform_func : d \in 1..Len(tables)}

(* ------------------------------- rows --------------------------------- *)

\* (item.get(key) or default, which also replaces a stored null)
Get_or_default(item, key, default) ==
    IF key \in DOMAIN item /\ item[key] # "null" THEN item[key] ELSE default

\* item.get(key, default): the value stored under key, whatever it is (a
\* stored null included), and the default only when the key is missing
Get(item, key, default) ==
    IF key \in DOMAIN item THEN item[key] ELSE default

DefaultPreferences ==
    "{sound_enabled:true,theme_preference:dark,preferred_categories:[],rating_display_preference:elo,tournament_size_preference:8}"

transform_cat_name_options(rows) ==
    [k \in 1..Len(rows) |->
        [name              |-> Get(rows[k], "name", "''"),
         description       |-> Get(rows[k], "description", "''"),
         avg_rating        |-> Get(rows[k], "avg_rating", "1500"),
         popularity_score  |-> Get(rows[k], "popularity_score", "0"),
         total_tournaments |-> Get(rows[k], "total_tournaments", "0"),
         is_active         |-> Get(rows[k], "is_active", "true"),
         categories        |-> Get(rows[k], "categories", "[]")]]

transform_cat_app_users(rows) ==
    [k \in 1..Len(rows) |->
        [user_name       |-> Get(rows[k], "user_name", "''"),
         preferences     |-> Get(rows[k], "preferences", DefaultPreferences),
         tournament_data |-> Get(rows[k], "tournament_data", "[]")]]

transform_cat_name_ratings(rows) ==
    [k \in 1..Len(rows) |->
        [user_name      |-> Get(rows[k], "user_name", "''"),
         name_id        |-> Get(rows[k], "name_id", "''"),
         rating         |-> Get(rows[k], "rating", "1500"),
         wins           |-> Get(rows[k], "wins", "0"),
         losses         |-> Get(rows[k], "losses", "0"),
         is_hidden      |-> Get(rows[k], "is_hidden", "false"),
         rating_history |-> Get(rows[k], "rating_history", "[]")]]

transform_tournament_selections(rows) ==
    [k \in 1..Len(rows) |->
        [user_name      |-> Get(rows[k], "user_name", "''"),
         name_id        |-> Get(rows[k], "name_id", "''"),
         name           |-> Get(rows[k], "name", "''"),
         tournament_id  |-> Get(rows[k], "tournament_id", "''"),
         selected_at    |-> Get(rows[k], "selected_at", "''"),
         selection_type |-> Get(rows[k], "selection_type", "tournament_setup")]]

\* transform_func(data): the call through the descriptor's function value
ApplyTransform(f, rows) ==
    CASE f = "transform_cat_name_options"      -> transform_cat_name_options(rows)
      [] f = "transform_cat_app_users"         -> transform_cat_app_users(rows)
      [] f = "transform_cat_name_ratings"      -> transform_cat_name_ratings(rows)
      [] f = "transform_tournament_selections" -> transform_tournament_selections(rows)

\* A JSON value as Python sees it after response.json(): a list of row maps,
\* a non-empty object (an error document, say), or null.
JsonList(rows) == [kind |-> "list", rows |-> rows]
JsonObject == [kind |-> "object", rows |-> <<>>]
JsonNull == [kind |-> "null", rows |-> <<>>]

\* Python truthiness, as in main's "if data:"
Truthy(v) ==
    CASE v.kind = "list"   -> Len(v.rows) > 0
      [] v.kind = "object" -> TRUE
      [] v.kind = "null"   -> FALSE

\* The k-th row of a source table.
SourceRow(k) ==
    [id |-> ToString(k), name |-> ToString(k), user_name |-> ToString(k)]

SourceRows(n) == [k \in 1..n |-> SourceRow(k)]

(* ------------------------------- HTTP --------------------------------- *)

MergeDuplicates == "resolution=merge-duplicates"

\* (the Prefer header built without looking at use_upsert)
PreferHeader_plain(upsert) == <<"return=representation">>

\* insert_data_to_table's Prefer header, as its comma-separated tokens
PreferHeader(upsert) ==
    IF upsert THEN <<"return=representation", MergeDuplicates>>
    ELSE <<"return=representation">>

Contains(header, token) == \E k \in 1..Len(header) : header[k] = token

\* response.raise_for_status(): raises HTTPError for a 4xx or 5xx status
raise_for_status(code) == code >= 400 /\ code < 600

GetRequest(t) ==
    [method |-> "GET", table |-> t, prefer |-> <<"return=representation">>,
     body |-> <<>>, state |-> "in_flight", code |-> 0, conflict |-> FALSE,
     decodable |-> FALSE, received |-> JsonNull]

PostRequest(t, header, batch) ==
    [method |-> "POST", table |-> t, prefer |-> header,
     body |-> batch, state |-> "in_flight", code |-> 0, conflict |-> FALSE,
     decodable |-> FALSE, received |-> JsonNull]

\* The last request of the log with its outcome filled in.
Answered(state, code, conflict, decodable, received) ==
    [log EXCEPT ![Len(log)] =
        [@ EXCEPT !.state = state, !.code = code, !.conflict = conflict,
                  !.decodable = decodable, !.received = received]]

InFlight == Cardinality({k \in 1..Len(log) : log[k].state = "in_flight"})

\* The status the destination answers a write with: a duplicate key fails
\* the request unless the request asks to merge duplicates; any other fault
\* of the destination fails it too.
DestinationStatus(header, conflict, fault) ==
    IF fault THEN 500
    ELSE IF conflict /\ ~Contains(header, MergeDuplicates) THEN 409
    ELSE 201

\* What the source may answer a read with.  A transport failure carries no
\* response; an error status carries an error document; a success status
\* carries the rows, or a body that is no list of rows, or no JSON at all.
ReadReplies(counts) ==
    {[net |-> "transport_error", code |-> 0, decodable |-> FALSE, value |-> JsonNull],
     [net |-> "responded", code |-> 500, decodable |-> TRUE, value |-> JsonObject],
     [net |-> "responded", code |-> 200, decodable |-> FALSE, value |-> JsonNull],
     [net |-> "responded", code |-> 200, decodable |-> TRUE, value |-> JsonObject],
     [net |-> "responded", code |-> 200, decodable |-> TRUE, value |-> JsonNull]}
    \cup {[net |-> "responded", code |-> 200, decodable |-> TRUE,
           value |-> JsonList(SourceRows(n))] : n \in counts}

\* main: the sizes a source table may have
MainRowCounts == {0, batch_size + MaxMainExtra}

\* (get_data_from_table without its raise_for_status call)
get_data_from_table_unchecked(reply) ==
    IF reply.net = "transport_error" THEN JsonList(<<>>)
    ELSE IF reply.decodable THEN reply.value
    ELSE JsonList(<<>>)

\* The value get_data_from_table returns on a reply.  requests.get raises on
\* a transport failure, raise_for_status on an error status, and
\* response.json() on a body that is no JSON (requests' JSONDecodeError):
\* all three are RequestExceptions, which the handler turns into [].
\* Otherwise response.json() returns whatever JSON value the body holds.
get_data_from_table(reply) ==
    IF reply.net = "transport_error" THEN JsonList(<<>>)
    ELSE IF raise_for_status(reply.code) THEN JsonList(<<>>)
    ELSE IF reply.decodable THEN reply.value
    ELSE JsonList(<<>>)

\* (a slice one row too long: data[i:i + batch_size + 1])
Batch_overlapping(rows, offset) ==
    SubSeq(rows, offset + 1, Min(offset + batch_size + 1, Len(rows)))

\* data[i:i + batch_size]
Batch(rows, offset) ==
    SubSeq(rows, offset + 1, Min(offset + batch_size, Len(rows)))

\* (only a transport failure raises: the status is never looked at)
PostRaises_transport_only(state, code) == state = "transport_error"

\* requests.post raises on a transport failure, raise_for_status on a 4xx
\* or 5xx status; insert_data_to_table's handler catches both
PostRaises(state, code) ==
    state = "transport_error" \/ raise_for_status(code)

(* ---------------------------- the program ----------------------------- *)

NoResult == [d \in 1..Len(tables) |-> "pending"]
NothingAccepted == [t \in {tables[d].table_name : d \in 1..Len(tables)} |-> <<>>]

\* main's for statement: the next descriptor is unpacked and its extraction
\* called, or the loop ends and main prints its completion lines
MainLoop ==
    /\ pc = "main_loop"
    /\ caller = "main"
    /\ IF idx <= Len(tables)
       THEN /\ table_name' = tables[idx].table_name
            /\ transform_func' = tables[idx].transform_func
            /\ use_upsert' = tables[idx].use_upsert
            /\ pc' = "get_call"
       ELSE /\ pc' = "done"
            /\ UNCHANGED <<table_name, transform_func, use_upsert>>
    /\ UNCHANGED <<caller, idx, data, transformed_data, i, ret, log, accepted, result>>

\* get_data_from_table up to its requests.get call: the read request leaves
GetCall ==
    /\ pc = "get_call"
    /\ log' = Append(log, GetRequest(table_name))
    /\ pc' = "get_wait"
    /\ UNCHANGED <<caller, idx, table_name, use_upsert, transform_func, data,
                   transformed_data, i, ret, accepted, result>>

\* requests.get returns or raises, and get_data_from_table runs to its end
GetReturn ==
    /\ pc = "get_wait"
    /\ \E reply \in ReadReplies(IF caller = "main" THEN MainRowCounts ELSE 0..MaxRows) :
          /\ log' = Answered(reply.net, reply.code, FALSE, reply.decodable, reply.value)
          /\ data' = get_data_from_table(reply)
          /\ pc' = "get_return"
    /\ UNCHANGED <<caller, idx, table_name, use_upsert, transform_func,
                   transformed_data, i, ret, accepted, result>>

\* main's "if data:" after the extraction: a falsy value is reported as no
\* data and the loop moves on; a truthy one goes to the transform
MainAfterGet ==
    /\ pc = "get_return"
    /\ caller = "main"
    /\ IF Truthy(data)
       THEN /\ pc' = "transform_call"
            /\ UNCHANGED <<idx, result>>
       ELSE /\ result' = [result EXCEPT ![idx] = "no_data"]
            /\ idx' = idx + 1
            /\ pc' = "main_loop"
    /\ UNCHANGED <<caller, table_name, use_upsert, transform_func, data,
                   transformed_data, i, ret, log, accepted>>

\* transform_func(data).  Iterating a value that is no list of row maps
\* yields items without a get method (the keys of an object): the call
\* raises AttributeError, which nothing catches.
TransformCall ==
    /\ pc = "transform_call"
    /\ IF data.kind = "list"
       THEN /\ transformed_data' = ApplyTransform(transform_func, data.rows)
            /\ pc' = IF caller = "main" THEN "insert_call" ELSE "transform_return"
       ELSE /\ pc' = "raised"
            /\ UNCHANGED transformed_data
    /\ UNCHANGED <<caller, idx, table_name, use_upsert, transform_func, data,
                   i, ret, log, accepted, result>>

\* insert_data_to_table's entry: an empty list returns True at once
InsertCall ==
    /\ pc = "insert_call"
    /\ IF Len(transformed_data) = 0
       THEN /\ ret' = "True"
            /\ pc' = "insert_return"
            /\ UNCHANGED i
       ELSE /\ i' = 0
            /\ pc' = "insert_loop"
            /\ UNCHANGED ret
    /\ UNCHANGED <<caller, idx, table_name, use_upsert, transform_func, data,
                   transformed_data, log, accepted, result>>

\* One turn of "for i in range(0, len(data), batch_size)": the batch is cut
\* and its write request leaves; past the last batch the function returns True
InsertLoop ==
    /\ pc = "insert_loop"
    /\ IF i < Len(transformed_data)
       THEN /\ log' = Append(log, PostRequest(table_name, PreferHeader(use_upsert),
                                              Batch(transformed_data, i)))
            /\ pc' = "post_wait"
            /\ UNCHANGED ret
       ELSE /\ ret' = "True"
            /\ pc' = "insert_return"
            /\ UNCHANGED log
    /\ UNCHANGED <<caller, idx, table_name, use_upsert, transform_func, data,
                   transformed_data, i, accepted, result>>

\* requests.post returns or raises.  The destination keeps the batch when it
\* answers with a success status.  A raise ends the function with False;
\* otherwise the loop goes on with the next offset.
PostReturn ==
    /\ pc = "post_wait"
    /\ \E net \in {"transport_error", "responded"}, conflict, fault \in BOOLEAN :
          LET req == log[Len(log)]
              code == IF net = "responded"
                      THEN DestinationStatus(req.prefer, conflict, fault) ELSE 0
          IN
          /\ net = "transport_error" => ~conflict /\ ~fault
          /\ fault => ~conflict
          /\ log' = Answered(net, code, conflict, FALSE, JsonNull)
          /\ accepted' = IF net = "responded" /\ ~raise_for_status(code)
                         THEN [accepted EXCEPT ![req.table] = @ \o req.body]
                         ELSE accepted
          /\ IF PostRaises(net, code)
             THEN /\ ret' = "False"
                  /\ pc' = "insert_return"
                  /\ UNCHANGED i
             ELSE /\ i' = i + batch_size
                  /\ pc' = "insert_loop"
                  /\ UNCHANGED ret
    /\ UNCHANGED <<caller, idx, table_name, use_upsert, transform_func, data,
                   transformed_data, result>>

\* main after the load: the table is reported migrated or failed, and the
\* loop moves on either way
MainAfterInsert ==
    /\ pc = "insert_return"
    /\ caller = "main"
    /\ result' = [result EXCEPT ![idx] = IF ret = "True" THEN "migrated" ELSE "failed"]
    /\ idx' = idx + 1
    /\ pc' = "main_loop"
    /\ UNCHANGED <<caller, table_name, use_upsert, transform_func, data,
                   transformed_data, i, ret, log, accepted>>

(* ------------------------- the specifications ------------------------- *)

\* python extract_and_migrate.py
InitMain ==
    /\ pc = "main_loop"
    /\ caller = "main"
    /\ idx = 1
    /\ table_name = ""
    /\ use_upsert = FALSE
    /\ transform_func = ""
    /\ data = JsonNull
    /\ transformed_data = <<>>
    /\ i = 0
    /\ ret = "none"
    /\ log = <<>>
    /\ accepted = NothingAccepted
    /\ result = NoResult

NextMain ==
    \/ MainLoop
    \/ GetCall
    \/ GetReturn
    \/ MainAfterGet
    \/ TransformCall
    \/ InsertCall
    \/ InsertLoop
    \/ PostReturn
    \/ MainAfterInsert

SpecMain == InitMain /\ [][NextMain]_vars

\* one call of get_data_from_table
InitExtractor ==
    /\ pc = "get_call"
    /\ caller = "none"
    /\ idx = 1
    /\ table_name \in {tables[d].table_name : d \in 1..Len(tables)}
    /\ use_upsert = FALSE
    /\ transform_func = ""
    /\ data = JsonNull
    /\ transformed_data = <<>>
    /\ i = 0
    /\ ret = "none"
    /\ log = <<>>
    /\ accepted = NothingAccepted
    /\ result = NoResult

NextExtractor == GetCall \/ GetReturn

SpecExtractor == InitExtractor /\ [][NextExtractor]_vars

\* one call of insert_data_to_table
InitLoader ==
    /\ pc = "insert_call"
    /\ caller = "none"
    /\ idx = 1
    /\ table_name \in {tables[d].table_name : d \in 1..Len(tables)}
    /\ use_upsert \in BOOLEAN
    /\ transform_func = ""
    /\ data = JsonNull
    /\ \E n \in 0..MaxRows : transformed_data = SourceRows(n)
    /\ i = 0
    /\ ret = "none"
    /\ log = <<>>
    /\ accepted = NothingAccepted
    /\ result = NoResult

NextLoader == InsertCall \/ InsertLoop \/ PostReturn

SpecLoader == InitLoader /\ [][NextLoader]_vars

\* The columns a source table may carry: those its transform reads, and one
\* the destination does not have.
SourceFields(f) ==
    DOMAIN ApplyTransform(f, <<SourceRow(1)>>)[1] \cup {"id"}

\* The rows a transform is tried on: empty, complete, one column only, or
\* all columns but one; the columns present all hold a string or all null.
InputRows(f) ==
    LET F == SourceFields(f)
        P == {{}, F} \cup {{x} : x \in F} \cup {F \ {x} : x \in F}
    IN  {[x \in present |-> v] : present \in P, v \in {"'x'", "null"}}

InputLists(f) ==
    UNION {[1..n -> InputRows(f)] : n \in 0..MaxLen}

\* one call of a transform function
InitTransform ==
    /\ pc = "transform_call"
    /\ caller = "none"
    /\ idx = 1
    /\ table_name = ""
    /\ use_upsert = FALSE
    /\ transform_func \in TransformNames
    /\ \E rows \in InputLists(transform_func) : data = JsonList(rows)
    /\ transformed_data = <<>>
    /\ i = 0
    /\ ret = "none"
    /\ log = <<>>
    /\ accepted = NothingAccepted
    /\ result = NoResult

NextTransform == TransformCall

SpecTransform == InitTransform /\ [][NextTransform]_vars

(* ------------------------------ claims -------------------------------- *)

\* The descriptors in the order the program lists them.
ListedOrder ==
    <<"cat_name_options", "cat_app_users", "cat_name_ratings", "tournament_selections">>

\* A request failed: a transport error, or a status that is not 2xx.
Failed(e) ==
    \/ e.state = "transport_error"
    \/ e.state = "responded" /\ e.code \notin 200..299

Succeeded(e) == e.state = "responded" /\ e.code \in 200..299

Reads(t) == {k \in 1..Len(log) : log[k].method = "GET" /\ log[k].table = t}
Writes(t) == {k \in 1..Len(log) : log[k].method = "POST" /\ log[k].table = t}

RECURSIVE Bodies(_)
Bodies(requests) ==
    IF requests = <<>> THEN <<>>
    ELSE Head(requests).body \o Bodies(Tail(requests))

C2_BatchesPartitionTheInput ==
    LET n == Len(transformed_data) IN
    /\ \A j \in 1..Len(log) :
          /\ log[j].method = "POST"
          /\ log[j].body = SubSeq(transformed_data, 50 * (j - 1) + 1, Min(50 * j, n))
    /\ (pc = "insert_return" /\ \A j \in 1..Len(log) : Succeeded(log[j])) =>
          /\ Len(log) = (n + 49) \div 50
          /\ Bodies(log) = transformed_data
          /\ ret = "True"

\* 120 rows, all accepted: three requests of 50, 50 and 20 rows
C2_Witness ==
    /\ pc = "insert_return"
    /\ Len(transformed_data) = 120
    /\ ret = "True"
    /\ Len(log) = 3
    /\ \A j \in 1..3 : Succeeded(log[j])
    /\ <<Len(log[1].body), Len(log[2].body), Len(log[3].body)>> = <<50, 50, 20>>

Terminated == pc \in {"done", "raised"}

\* C3: when a run of main has ended, every descriptor whose extraction
\* returned no rows got no write request, and every other descriptor's
\* extraction was attempted.
C3_EmptyTableSkippedOthersAttempted ==
    Terminated =>
        \A d \in 1..Len(ListedOrder) :
            result[d] = "no_data" =>
                /\ Writes(ListedOrder[d]) = {}
                /\ \A o \in 1..Len(ListedOrder) : Reads(ListedOrder[o]) # {}

\* C4: no descriptor is ever read twice, and a run of main that has ended
\* has ended in its completed state with exactly one read request issued
\* for each of the four descriptors.
C4_EveryTableReadOnceThenCompleted ==
    /\ \A d \in 1..Len(ListedOrder) : Cardinality(Reads(ListedOrder[d])) <= 1
    /\ Terminated =>
          /\ pc = "done"
          /\ \A d \in 1..Len(ListedOrder) : Cardinality(Reads(ListedOrder[d])) = 1

\* The destination fields of each table with their defaults.
Schema(f) ==
    CASE f = "transform_cat_name_options" ->
            [name |-> "''", description |-> "''", avg_rating |-> "1500",
             popularity_score |-> "0", total_tournaments |-> "0",
             is_active |-> "true", categories |-> "[]"]
      [] f = "transform_cat_app_users" ->
            [user_name |-> "''", preferences |-> DefaultPreferences,
             tournament_data |-> "[]"]
      [] f = "transform_cat_name_ratings" ->
            [user_name |-> "''", name_id |-> "''", rating |-> "1500", wins |-> "0",
             losses |-> "0", is_hidden |-> "false", rating_history |-> "[]"]
      [] f = "transform_tournament_selections" ->
            [user_name |-> "''", name_id |-> "''", name |-> "''",
             tournament_id |-> "''", selected_at |-> "''",
             selection_type |-> "tournament_setup"]

\* C5: a transform's output has the length of its input; output row k has
\* exactly the destination fields of the table, and each holds input row
\* k's value for the field when the row has the field, else the default.
C5_TransformKeepsPresentDefaultsMissing ==
    pc = "transform_return" =>
        /\ Len(transformed_data) = Len(data.rows)
        /\ \A k \in 1..Len(data.rows) :
              /\ DOMAIN transformed_data[k] = DOMAIN Schema(transform_func)
              /\ \A x \in DOMAIN Schema(transform_func) :
                    transformed_data[k][x] =
                        IF x \in DOMAIN data.rows[k] THEN data.rows[k][x]
                        ELSE Schema(transform_func)[x]

\* cat_name_ratings: a row with nothing but user_name, then a different row
C5_Witness ==
    /\ pc = "transform_return"
    /\ transform_func = "transform_cat_name_ratings"
    /\ Len(data.rows) = 2
    /\ DOMAIN data.rows[1] = {"user_name"}
    /\ "id" \in DOMAIN data.rows[2]
    /\ transformed_data[1].user_name = "'x'"
    /\ transformed_data[1].rating = "1500"
    /\ transformed_data[1].rating_history = "[]"
    /\ "id" \notin DOMAIN transformed_data[2]

\* C6: a destination field whose source value is null gets the field's
\* default, as a missing field does: no output row carries a null.
C6_NullGetsTheDefault ==
    pc = "transform_return" =>
        \A k \in 1..Len(data.rows) :
            \A x \in DOMAIN Schema(transform_func) :
                (x \in DOMAIN data.rows[k] /\ data.rows[k][x] = "null") =>
                    transformed_data[k][x] = Schema(transform_func)[x]

\* C7: a call of get_data_from_table issues one read request and no other;
\* answered with a list of rows it returns that list as it came; on a
\* transport failure or an error status it returns the empty list and does
\* not raise.
C7_ExtractorReturnsRowsOrEmpty ==
    /\ Len(log) <= 1
    /\ \A k \in 1..Len(log) : log[k].method = "GET" /\ log[k].table = table_name
    /\ pc # "get_call" => Len(log) = 1
    /\ pc \notin {"get_call", "get_wait"} =>
          LET e == log[1] IN
          /\ (Succeeded(e) /\ e.decodable /\ e.received.kind = "list") =>
                pc = "get_return" /\ data = e.received
          /\ Failed(e) => pc = "get_return" /\ data = JsonList(<<>>)

\* a 500 answer: the call returned the empty list after its one request
C7_Witness ==
    /\ pc = "get_return"
    /\ Len(log) = 1
    /\ log[1].state = "responded"
    /\ log[1].code = 500
    /\ data = JsonList(<<>>)

\* C8: no error of a read or write request propagates as a raised fault;
\* a read answered with a success status and a body that is no decodable
\* list of rows does not abort the run.
C8_NoFaultPropagates ==
    pc # "raised"

\* C9: a write request asks to merge duplicates exactly when it is for
\* cat_name_options.  A batch that meets an existing key at the destination
\* is accepted for cat_name_options; for any other table it fails, no
\* further batch of the table is sent and the table is reported failed.
C9_MergeOnlyForNames ==
    \A k \in 1..Len(log) :
        log[k].method = "POST" =>
            /\ Contains(log[k].prefer, "resolution=merge-duplicates")
                  <=> log[k].table = "cat_name_options"
            /\ (log[k].state = "responded" /\ log[k].conflict) =>
                  IF log[k].table = "cat_name_options"
                  THEN Succeeded(log[k])
                  ELSE /\ Failed(log[k])
                       /\ \A j \in (k + 1)..Len(log) : log[j].table # log[k].table
                       /\ \A d \in 1..Len(ListedOrder) :
                             ListedOrder[d] = log[k].table =>
                                 /\ result[d] \in {"pending", "failed"}
                                 /\ idx > d => result[d] = "failed"

\* a duplicate merged into cat_name_options, and a duplicate that failed the
\* first of two batches of cat_app_users
C9_Witness ==
    /\ result[2] = "failed"
    /\ \E k \in 1..Len(log) :
          /\ log[k].table = "cat_name_options"
          /\ log[k].conflict
          /\ log[k].code = 201
    /\ \E k \in 1..Len(log) :
          /\ log[k].table = "cat_app_users"
          /\ log[k].conflict
          /\ log[k].code = 409
          /\ Len(log[k].body) = 50
          /\ Cardinality(Writes("cat_app_users")) = 1

\* C10: at most one request is in flight and a request is issued only after
\* every earlier one has returned; the j-th read is for the j-th listed
\* descriptor; every write follows the read of its own descriptor with no
\* read of another descriptor in between.
C10_SequentialOrderedTrace ==
    /\ InFlight <= 1
    /\ \A k \in 1..(Len(log) - 1) : log[k].state # "in_flight"
    /\ \A k \in 1..Len(log) :
          LET earlier == {j \in 1..k : log[j].method = "GET"} IN
          /\ earlier # {}
          /\ Cardinality(earlier) <= Len(ListedOrder)
          /\ log[k].table = ListedOrder[Cardinality(earlier)]

\* a completed run that wrote to the first and to the last table
C10_Witness ==
    /\ pc = "done"
    /\ Cardinality(Writes("cat_name_options")) = 2
    /\ Cardinality(Writes("tournament_selections")) = 2
    /\ \A d \in 1..Len(ListedOrder) : Cardinality(Reads(ListedOrder[d])) = 1

====
